---- MODULE Spec2Model ----
(***************************************************************************)
(* Model of the vesu-v2-liquidator: the price refresh loop, the indexer    *)
(* loop and the monitoring loop (delta application and liquidation sweep), *)
(* with the liquidation math of a position.                                *)
(***************************************************************************)
EXTENDS Integers, Sequences, FiniteSets, TLC

VARIABLES
    prices,       \* VESU_PRICES: asset -> Decimal
    oraclePc,     \* position of OracleService::run_forever
    pending,      \* results of the refresh cycle not yet inserted
    idxPc,        \* position of IndexerService::run_forever
    meet,         \* IndexerService.meet_with_monitoring (Option<Sender>)
    oneshot,      \* state of the oneshot channel behind the startup barrier
    chan,         \* mpsc channel indexer -> monitoring
    nFwd,         \* number of deltas the indexer forwarded (history)
    preLeft,      \* deltas forwarded before the barrier signal whose handling
                  \* has not finished (history)
    nSignals,     \* number of send(()) calls on the oneshot sender (history)
    monPc,        \* position of MonitoringService::run_forever
    store,        \* MonitoringService.current_positions
    cur,          \* the delta whose VesuPosition::new is being awaited
    todo,         \* keys the running sweep has not visited yet
    liq,          \* key of the position whose liquidation is in flight
    last,         \* the latest event among those of the kinds in `watch`: a
                  \* tick and its outcome, an eviction and the evicted key
                  \* and lltv, a Synced after the first, a creation that
                  \* failed and its key, an upstream message without a
                  \* delta, a liquidation that failed and its key, the
                  \* assets priced so far, a fetch that failed, the start of
                  \* a refresh cycle and a sweep that read the cache during
                  \* one (history)
    probe,        \* one call of is_liquidable on a free-standing position
    scan,         \* assets wait_for_first_prices has not read yet in its
                  \* iteration over the cache
    cancel,       \* the cancellation token of the service group is set
    watch         \* the kinds of event that `last` records (history)

vars == <<prices, oraclePc, pending, idxPc, meet, oneshot, chan, nFwd, preLeft,
          nSignals, monPc, store, cur, todo, liq, last, probe, scan, cancel,
          watch>>

oracleVars == <<prices, oraclePc, pending>>
indexerVars == <<idxPc, meet, oneshot, chan, nFwd, preLeft, nSignals>>
monitorVars == <<monPc, store, cur, todo, liq, last>>

-----------------------------------------------------------------------------
(* Bounds of the model *)

MaxDeltas == 2

\* longest sequence of deltas applied to a free-standing position
MaxSeqLen == 3

-----------------------------------------------------------------------------
(* rust_decimal values: mantissa * 10^-exp *)

VESU_SCALE == 18

\* the margin below lltv from which a position is logged as almost liquidable
ALMOST_LIQUIDABLE_THRESHOLD == [mant |-> 5, exp |-> 3]

Dec(m, e) == [mant |-> m, exp |-> e]

ZERO == Dec(0, 0)

is_zero(d) == d.mant = 0

is_sign_negative(d) == d.mant < 0

RECURSIVE Pow10(_)
Pow10(n) == IF n = 0 THEN 1 ELSE 10 * Pow10(n - 1)

Max(a, b) == IF a >= b THEN a ELSE b

Min(a, b) == IF a <= b THEN a ELSE b

\* the mantissa of d at the scale e >= d.exp
Rescale(d, e) == IF d.mant = 0 THEN 0 ELSE d.mant * Pow10(e - d.exp)

\* A Decimal whose 96-bit mantissa is written out: four limbs in base 10^9,
\* least significant first, with the sign apart.
LimbBase == 1000000000

Wide(neg, limbs, e) == [neg |-> neg, limbs |-> limbs, exp |-> e]

IsWide(d) == "limbs" \in DOMAIN d

\* 2^96 - 1, the largest mantissa of a Decimal
MaxMantissa == <<543950335, 264337593, 228162514, 79>>

MagZero == <<0, 0, 0, 0>>

MagAdd(x, y) ==
    LET s1 == x[1] + y[1]
        s2 == x[2] + y[2] + (s1 \div LimbBase)
        s3 == x[3] + y[3] + (s2 \div LimbBase)
        s4 == x[4] + y[4] + (s3 \div LimbBase)
    IN  <<s1 % LimbBase, s2 % LimbBase, s3 % LimbBase, s4>>

\* x - y for x >= y
MagSub(x, y) ==
    LET d1 == x[1] - y[1]
        b1 == IF d1 < 0 THEN 1 ELSE 0
        d2 == x[2] - y[2] - b1
        b2 == IF d2 < 0 THEN 1 ELSE 0
        d3 == x[3] - y[3] - b2
        b3 == IF d3 < 0 THEN 1 ELSE 0
        d4 == x[4] - y[4] - b3
    IN  <<d1 + b1 * LimbBase, d2 + b2 * LimbBase, d3 + b3 * LimbBase, d4>>

MagGt(x, y) ==
    \/ x[4] > y[4]
    \/ x[4] = y[4] /\ x[3] > y[3]
    \/ x[4] = y[4] /\ x[3] = y[3] /\ x[2] > y[2]
    \/ x[4] = y[4] /\ x[3] = y[3] /\ x[2] = y[2] /\ x[1] > y[1]

MagMul10(x) ==
    LET top == LimbBase \div 10
    IN  <<(x[1] % top) * 10,
          (x[2] % top) * 10 + (x[1] \div top),
          (x[3] % top) * 10 + (x[2] \div top),
          x[4] * 10 + (x[3] \div top)>>

RECURSIVE MagMulPow10(_, _)
MagMulPow10(x, n) == IF n = 0 THEN x ELSE MagMulPow10(MagMul10(x), n - 1)

\* x divided by 10: the quotient and the digit that is dropped
MagDiv10(x) ==
    LET top == LimbBase \div 10
    IN  [quot |-> <<(x[1] \div 10) + (x[2] % 10) * top,
                    (x[2] \div 10) + (x[3] % 10) * top,
                    (x[3] \div 10) + (x[4] % 10) * top,
                    x[4] \div 10>>,
         rem |-> x[1] % 10]

\* a sum that does not fit in 96 bits loses decimal places, one at a time,
\* rounding half to even
RECURSIVE Fit(_, _, _)
Fit(neg, mag, e) ==
    IF MagGt(mag, MaxMantissa) /\ e > 0
    THEN LET d == MagDiv10(mag)
             up == d.rem > 5 \/ (d.rem = 5 /\ d.quot[1] % 2 = 1)
         IN  Fit(neg, IF up THEN MagAdd(d.quot, <<1, 0, 0, 0>>) ELSE d.quot, e - 1)
    ELSE Wide(neg /\ mag # MagZero, mag, e)

DecIsZero(d) == IF IsWide(d) THEN d.limbs = MagZero ELSE d.mant = 0

\* the sum of two Decimals with written-out mantissas: exact at the larger
\* scale, then fitted into 96 bits
WideAdd(a, b) ==
    IF DecIsZero(a) THEN b
    ELSE IF DecIsZero(b) THEN a
    ELSE LET e == Max(a.exp, b.exp)
             x == MagMulPow10(a.limbs, e - a.exp)
             y == MagMulPow10(b.limbs, e - b.exp)
         IN  IF a.neg = b.neg THEN Fit(a.neg, MagAdd(x, y), e)
             ELSE IF MagGt(y, x) THEN Fit(b.neg, MagSub(y, x), e)
             ELSE Fit(a.neg, MagSub(x, y), e)

\* Decimal addition; mantissas far below 96 bits are kept as integers
DecAdd(a, b) ==
    IF IsWide(a) \/ IsWide(b) THEN WideAdd(a, b)
    ELSE LET e == Max(a.exp, b.exp)
         IN  Dec(Rescale(a, e) + Rescale(b, e), e)

DecMul(a, b) == Dec(a.mant * b.mant, a.exp + b.exp)

\* The quotient a / b for b # 0, kept as a fraction with a positive
\* denominator (rust_decimal rounds it at the 28th place, which no
\* comparison below can observe within the bounds of the model).
DecDiv(a, b) ==
    LET e == Min(a.exp, b.exp)
        n == a.mant * Pow10(b.exp - e)
        d == b.mant * Pow10(a.exp - e)
    IN  IF d < 0 THEN [num |-> 0 - n, den |-> 0 - d] ELSE [num |-> n, den |-> d]

QuotIsZero(q) == q.num = 0

\* q >= d for a quotient q and a decimal d
QuotGe(q, d) == q.num * Pow10(d.exp) >= d.mant * q.den

\* q > d for a quotient q and a decimal d
QuotGt(q, d) == q.num * Pow10(d.exp) > d.mant * q.den

\* nb / 10^scale: the decimal point moves by `scale` places
scale(nb, s) == [nb EXCEPT !.exp = @ + s]

-----------------------------------------------------------------------------
(* Static configuration *)

\* tickers of config/assets.toml the monitored pair uses
Assets == {"WBTC", "USDC"}

\* PoolName values whose pool_address() the deltas may come from
KnownPools == {"Prime"}

\* a from_address that is the pool_address() of no PoolName
UnknownAddress == "0xdead"

Users == {"u1", "u2"}

NoPos == [none |-> TRUE]

\* PoolName::try_from: Ok(pool) for the address of a known pool, else Err
PoolName_try_from(address) ==
    IF address \in KnownPools THEN [ok |-> TRUE, pool |-> address]
    ELSE [ok |-> FALSE, pool |-> address]

pool_address(pool) == pool

-----------------------------------------------------------------------------
(* types/position.rs *)

Asset_from_address(address) == [currency |-> address, amount |-> ZERO]

apply_delta(asset, amount_delta) ==
    [asset EXCEPT !.amount = DecAdd(asset.amount, amount_delta)]

\* an update that also moves the threshold of the position
update_from_delta_moves_lltv(p, delta) ==
    [p EXCEPT
        !.collateral = apply_delta(p.collateral, scale(delta.collateral_delta, VESU_SCALE)),
        !.debt = apply_delta(p.debt, scale(delta.debt_delta, VESU_SCALE)),
        !.lltv = DecAdd(p.lltv, Dec(1, 1))]

update_from_delta(p, delta) ==
    [p EXCEPT
        !.collateral = apply_delta(p.collateral, scale(delta.collateral_delta, VESU_SCALE)),
        !.debt = apply_delta(p.debt, scale(delta.debt_delta, VESU_SCALE))]

\* a constructor that starts from the balances of the event and then
\* applies the event
VesuPosition_new_delta_twice(from_address, event, max_ltv) ==
    LET new_position ==
            [user_address |-> event.user_address,
             pool_name |-> PoolName_try_from(from_address).pool,
             collateral |-> Asset_from_address(event.collateral_address),
             debt |-> Asset_from_address(event.debt_address),
             lltv |-> max_ltv]
    IN  IF is_zero(max_ltv) THEN [ok |-> FALSE, position |-> NoPos]
        ELSE [ok |-> TRUE,
              position |-> update_from_delta(update_from_delta(new_position, event), event)]

\* a constructor without the ensure on the lltv
VesuPosition_new_no_ensure(from_address, event, max_ltv) ==
    LET new_position ==
            [user_address |-> event.user_address,
             pool_name |-> PoolName_try_from(from_address).pool,
             collateral |-> Asset_from_address(event.collateral_address),
             debt |-> Asset_from_address(event.debt_address),
             lltv |-> max_ltv]
    IN  [ok |-> TRUE, position |-> update_from_delta(new_position, event)]

\* VesuPosition::new once pair_config returned max_ltv: Ok(position), or
\* Err when max_ltv is zero
VesuPosition_new(from_address, event, max_ltv) ==
    LET new_position ==
            [user_address |-> event.user_address,
             pool_name |-> PoolName_try_from(from_address).pool,
             collateral |-> Asset_from_address(event.collateral_address),
             debt |-> Asset_from_address(event.debt_address),
             lltv |-> max_ltv]
    IN  IF is_zero(max_ltv) THEN [ok |-> FALSE, position |-> NoPos]
        ELSE [ok |-> TRUE, position |-> update_from_delta(new_position, event)]

\* a closure test that forgets the negative balances
is_closed_only_zero(p) == is_zero(p.collateral.amount)

is_closed(p) == is_zero(p.collateral.amount) \/ is_sign_negative(p.collateral.amount)

\* the hash of the four addresses, kept as the tuple it is computed from
position_id(p) ==
    <<pool_address(p.pool_name), p.collateral.currency, p.debt.currency, p.user_address>>

\* VesuOraclePrices::of_ticker
of_ticker(ticker, pr) == IF ticker = "USD" THEN Dec(1, 0) ELSE pr[ticker]

collateral_value_in_usd(p, pr) ==
    DecMul(p.collateral.amount, of_ticker(p.collateral.currency, pr))

debt_value_in_usd(p, pr) ==
    DecMul(p.debt.amount, of_ticker(p.debt.currency, pr))

\* Decimal division panics on a zero divisor
ltv_panics(p, pr) == is_zero(collateral_value_in_usd(p, pr))

ltv(p, pr) == DecDiv(debt_value_in_usd(p, pr), collateral_value_in_usd(p, pr))

\* the classification that is logged only: not liquidable, and the ltv is
\* above lltv - ALMOST_LIQUIDABLE_THRESHOLD (for a defined, nonzero ltv)
is_almost_liquidable(p, pr) ==
    /\ ~is_zero(p.lltv)
    /\ ~ltv_panics(p, pr)
    /\ LET ltv_ratio == ltv(p, pr)
           almost_liquidable_threshold ==
               DecAdd(p.lltv, Dec(0 - ALMOST_LIQUIDABLE_THRESHOLD.mant,
                                  ALMOST_LIQUIDABLE_THRESHOLD.exp))
       IN  /\ ~QuotIsZero(ltv_ratio)
           /\ ~QuotGe(ltv_ratio, p.lltv)
           /\ QuotGt(ltv_ratio, almost_liquidable_threshold)

\* is_liquidable that compares the ltv with the almost-liquidable threshold
is_liquidable_from_almost_threshold(p, pr) ==
    IF is_zero(p.lltv) THEN "false"
    ELSE IF ltv_panics(p, pr) THEN "panic"
    ELSE LET ltv_ratio == ltv(p, pr)
             almost_liquidable_threshold ==
                 DecAdd(p.lltv, Dec(0 - ALMOST_LIQUIDABLE_THRESHOLD.mant,
                                    ALMOST_LIQUIDABLE_THRESHOLD.exp))
         IN  IF QuotIsZero(ltv_ratio)
             THEN (IF ~is_zero(p.debt.amount) THEN "true" ELSE "false")
             ELSE (IF QuotGt(ltv_ratio, almost_liquidable_threshold) THEN "true" ELSE "false")

\* is_liquidable without the early return on a zero lltv
is_liquidable_no_lltv_guard(p, pr) ==
    IF ltv_panics(p, pr) THEN "panic"
    ELSE LET ltv_ratio == ltv(p, pr)
         IN  IF QuotIsZero(ltv_ratio)
             THEN (IF ~is_zero(p.debt.amount) THEN "true" ELSE "false")
             ELSE (IF QuotGe(ltv_ratio, p.lltv) THEN "true" ELSE "false")

\* is_liquidable whose test of a zero ltv does not look at the debt
is_liquidable_zero_ltv_is_liquidable(p, pr) ==
    IF is_zero(p.lltv) THEN "false"
    ELSE IF ltv_panics(p, pr) THEN "panic"
    ELSE LET ltv_ratio == ltv(p, pr)
         IN  IF QuotIsZero(ltv_ratio)
             THEN "true"
             ELSE (IF QuotGe(ltv_ratio, p.lltv) THEN "true" ELSE "false")

\* is_liquidable: "true", "false", or "panic" when ltv() divides by zero
is_liquidable(p, pr) ==
    IF is_zero(p.lltv) THEN "false"
    ELSE IF ltv_panics(p, pr) THEN "panic"
    ELSE LET ltv_ratio == ltv(p, pr)
         IN  IF QuotIsZero(ltv_ratio)
             THEN (IF ~is_zero(p.debt.amount) THEN "true" ELSE "false")
             ELSE (IF QuotGe(ltv_ratio, p.lltv) THEN "true" ELSE "false")

-----------------------------------------------------------------------------
(* Inputs of the model *)

\* (collateral_delta, debt_delta) of the upstream events, in on-chain units
DeltaVals == {<<1000, 599>>, <<0 - 1000, 0 - 599>>}

\* max_ltv values the pair configuration may hold
LltvVals == {ZERO, Dec(5, 1), Dec(6, 1)}

\* prices the oracle contract may report, in USD
PriceVals == {0, 1}

PositionDelta(collateral_address, debt_address, user_address, cd, dd) ==
    [collateral_address |-> collateral_address,
     debt_address |-> debt_address,
     user_address |-> user_address,
     collateral_delta |-> Dec(cd, 0),
     debt_delta |-> Dec(dd, 0)]

\* a PositionEvent or LiquidatePositionEvent as the stream decodes it; the
\* user address is wrapped
VesuEvent(collateral_address, debt_address, user_address, cd, dd) ==
    [event_metadata |-> [collateral_address |-> collateral_address,
                         debt_address |-> debt_address,
                         user_address |-> <<user_address>>],
     collateral_delta |-> Dec(cd, 0),
     debt_delta |-> Dec(dd, 0)]

\* impl From<PositionEvent> for PositionDelta
PositionDelta_from_PositionEvent(value) ==
    [collateral_address |-> value.event_metadata.collateral_address,
     debt_address |-> value.event_metadata.debt_address,
     user_address |-> value.event_metadata.user_address[1],
     collateral_delta |-> value.collateral_delta,
     debt_delta |-> value.debt_delta]

\* a conversion that takes the amounts of a liquidation as amounts removed
PositionDelta_from_LiquidatePositionEvent_negates(value) ==
    [collateral_address |-> value.event_metadata.collateral_address,
     debt_address |-> value.event_metadata.debt_address,
     user_address |-> value.event_metadata.user_address[1],
     collateral_delta |-> Dec(0 - value.collateral_delta.mant, value.collateral_delta.exp),
     debt_delta |-> Dec(0 - value.debt_delta.mant, value.debt_delta.exp)]

\* impl From<LiquidatePositionEvent> for PositionDelta
PositionDelta_from_LiquidatePositionEvent(value) ==
    [collateral_address |-> value.event_metadata.collateral_address,
     debt_address |-> value.event_metadata.debt_address,
     user_address |-> value.event_metadata.user_address[1],
     collateral_delta |-> value.collateral_delta,
     debt_delta |-> value.debt_delta]

\* the upstream events: u1 opens and closes a position, u2 opens one, and
\* one delta comes from an address that is no known pool
VesuEvents ==
    {[from_address |-> pool,
      value |-> VesuEvent("WBTC", "USDC", "u1", v[1], v[2])] :
        pool \in KnownPools, v \in DeltaVals}
    \cup {[from_address |-> pool,
           value |-> VesuEvent("WBTC", "USDC", "u2", 1000, 599)] : pool \in KnownPools}
    \cup {[from_address |-> UnknownAddress,
           value |-> VesuEvent("WBTC", "USDC", "u1", 1000, 599)]}

\* the messages the indexer sends for them: (event_metadata, delta)
UpstreamEvents ==
    {[from_address |-> e.from_address,
      event |-> PositionDelta_from_PositionEvent(e.value)] : e \in VesuEvents}

\* upstream events that give u2 collateral and no debt
DebtFreeEvents ==
    {[from_address |-> pool,
      event |-> PositionDelta("WBTC", "USDC", "u2", 1000, 0)] : pool \in KnownPools}

Keys == {<<pool_address(pool), "WBTC", "USDC", u>> : pool \in KnownPools, u \in Users}

NoDelta == [none |-> TRUE]
NoKey == <<>>
NoEvent == [none |-> TRUE]
\* a timer tick and its outcome: skipped_barrier, skipped_backlog or swept
Tick(outcome) == [tick |-> outcome]
\* a Synced notification that was not the first
SyncedAgain == [synced |-> "again"]
\* an upstream message of this kind, which carries no delta, was handled
Ignored(kind) == [ignored |-> kind]
\* liquidate_position returned Err for the position of this key
LiqFailed(key) == [liq_failed |-> key]
\* VesuPosition::new returned Err for a delta of this key
NewFailed(key) == [new_failed |-> key]
\* pair_config returned a max_ltv of zero for a delta of this key
ZeroLltv(key) == [zero_lltv |-> key]
\* the assets for which a nonzero price has been inserted so far
Priced(assets) == [priced |-> assets]
\* the fetch of the price of this asset returned Err
FetchFailed(asset) == [fetch_failed |-> asset]
\* the fetches of a cycle have completed; the cache before its first insert
CycleStart(cache) == [before |-> cache]
\* a sweep has evaluated a position on this cache, which the cycle that is
\* being inserted had already changed
MidCycleRead(cache) == [read |-> cache]

\* a send into the delta channel returned Err: the receiver is dropped
SendFailed == [send_failed |-> TRUE]
\* the newest delta sent came from the Position arm
PositionForwarded == [position |-> TRUE]
\* the newest delta sent came from the Liquidation arm, for this upstream event
LiquidationForwarded(e) == [liquidation |-> e]

\* the history after an event of this kind: recorded if the kind is watched
Record(kind, event) == IF kind \in watch THEN event ELSE last

-----------------------------------------------------------------------------
(* services/oracle *)

\* vesu_price_in_usd on the oracle's answer (price low part, validity flag)
vesu_price_in_usd(asset_price_low, is_valid) ==
    IF is_valid = 0 THEN [ok |-> FALSE, price |-> ZERO]
    ELSE [ok |-> TRUE, price |-> scale(asset_price_low, VESU_SCALE)]

\* answers of the price calls: the call fails, or returns (low, is_valid)
PriceFetchResults ==
    {[ok |-> FALSE, price |-> ZERO]}
    \cup {vesu_price_in_usd(Dec(v, 0 - VESU_SCALE), f) : v \in PriceVals, f \in {0, 1}}

\* the history of the assets that have been given a nonzero price
PricedAssets == IF "priced" \in DOMAIN last THEN last.priced ELSE {}

\* update_prices: every fetch of the cycle has completed (join_all)
OracleJoin ==
    /\ oraclePc = "fetch"
    /\ ~cancel
    /\ oraclePc' = "publish"
    /\ pending' = Assets
    /\ last' = Record("cycle", CycleStart(prices))
    /\ UNCHANGED <<prices, indexerVars, monPc, store, cur, todo, liq,
                   probe, scan, cancel, watch>>

\* a cycle whose first failed fetch ends run_forever, as a `?` on the result
\* of the fetch would
OraclePublish_error_propagates ==
    /\ oraclePc = "publish"
    /\ \E asset \in pending, vesu_price_result \in PriceFetchResults :
        /\ prices' = IF vesu_price_result.ok
                     THEN [prices EXCEPT ![asset] = vesu_price_result.price]
                     ELSE prices
        /\ pending' = IF vesu_price_result.ok THEN pending \ {asset} ELSE {}
        /\ oraclePc' = IF ~vesu_price_result.ok THEN "failed"
                       ELSE IF pending' = {} THEN "fetch" ELSE "publish"
        /\ last' = IF ~vesu_price_result.ok
                   THEN Record("fetch_failed", FetchFailed(asset))
                   ELSE IF is_zero(vesu_price_result.price) THEN last
                   ELSE Record("priced", Priced(PricedAssets \cup {asset}))
    /\ UNCHANGED <<indexerVars, monPc, store, cur, todo, liq,
                   probe, scan, cancel, watch>>

\* update_prices: one result of the cycle is inserted if it is Ok; after
\* the last one the loop sleeps and starts the next cycle
OraclePublish ==
    /\ oraclePc = "publish"
    /\ \E asset \in pending, vesu_price_result \in PriceFetchResults :
        /\ prices' = IF vesu_price_result.ok
                     THEN [prices EXCEPT ![asset] = vesu_price_result.price]
                     ELSE prices
        /\ pending' = pending \ {asset}
        /\ oraclePc' = IF pending' = {} THEN "fetch" ELSE "publish"
        /\ last' = IF ~vesu_price_result.ok
                   THEN Record("fetch_failed", FetchFailed(asset))
                   ELSE IF is_zero(vesu_price_result.price) THEN last
                   ELSE Record("priced", Priced(PricedAssets \cup {asset}))
    /\ UNCHANGED <<indexerVars, monPc, store, cur, todo, liq,
                   probe, scan, cancel, watch>>

-----------------------------------------------------------------------------
(* services/indexer *)

\* the monitoring task has returned or panicked: its receivers are dropped
ReceiversDropped == monPc \in {"failed", "panicked", "cancelled"}

\* the IndexerService is dropped: an unused oneshot sender closes the channel
DropIndexer(pc) ==
    /\ idxPc' = pc
    /\ meet' = "None"
    /\ oneshot' = IF meet = "Some" THEN "closed" ELSE oneshot

\* a loop that goes on forwarding after the upstream handle completed
Forward_after_upstream_stopped(msg) ==
    /\ idxPc \in {"running", "failed"}
    /\ ~cancel
    /\ nFwd < MaxDeltas
    /\ IF ReceiversDropped
       THEN DropIndexer("failed") /\ UNCHANGED <<chan, nFwd, preLeft>>
       ELSE /\ chan' = Append(chan, msg)
            /\ nFwd' = nFwd + 1
            /\ preLeft' = IF oneshot = "sent" THEN preLeft ELSE preLeft + 1
            /\ UNCHANGED <<idxPc, meet, oneshot>>
    /\ UNCHANGED <<nSignals, oracleVars, monPc, store, cur, todo, liq,
                   probe, scan, cancel, watch>>

\* a send whose result is dropped: the loop goes on after the receiver is gone
Forward_ignores_send_error(msg) ==
    /\ idxPc = "running"
    /\ ~cancel
    /\ nFwd < MaxDeltas
    /\ nFwd' = nFwd + 1
    /\ IF ReceiversDropped
       THEN UNCHANGED <<chan, preLeft>>
       ELSE /\ chan' = Append(chan, msg)
            /\ preLeft' = IF oneshot = "sent" THEN preLeft ELSE preLeft + 1
    /\ UNCHANGED <<idxPc, meet, oneshot>>
    /\ UNCHANGED <<nSignals, oracleVars, monPc, store, cur, todo, liq,
                   probe, scan, cancel, watch>>

\* tx_to_monitoring.send((event_metadata, delta))?
Forward(msg) ==
    /\ idxPc = "running"
    /\ ~cancel
    /\ nFwd < MaxDeltas
    /\ IF ReceiversDropped
       THEN DropIndexer("failed") /\ UNCHANGED <<chan, nFwd, preLeft>>
       ELSE /\ chan' = Append(chan, msg)
            /\ nFwd' = nFwd + 1
            /\ preLeft' = IF oneshot = "sent" THEN preLeft ELSE preLeft + 1
            /\ UNCHANGED <<idxPc, meet, oneshot>>
    /\ UNCHANGED <<nSignals, oracleVars, monPc, store, cur, todo, liq,
                   probe, scan, cancel, watch>>

\* the arm of a Position event: the event is converted and sent
IndexerPosition ==
    \E e \in VesuEvents :
        /\ Forward([from_address |-> e.from_address,
                    event |-> PositionDelta_from_PositionEvent(e.value)])
        /\ last' = IF ReceiversDropped THEN Record("send_failed", SendFailed)
                   ELSE Record("forwarded", PositionForwarded)

\* the arm of a Liquidation event: the event is converted and sent
IndexerLiquidation ==
    \E e \in VesuEvents :
        /\ Forward([from_address |-> e.from_address,
                    event |-> PositionDelta_from_LiquidatePositionEvent(e.value)])
        /\ last' = IF ReceiversDropped THEN Record("send_failed", SendFailed)
                   ELSE Record("forwarded", LiquidationForwarded(e))

\* a Context arm that forwards a delta as the Position arm does
IndexerContext_forwards ==
    /\ idxPc = "running"
    /\ ~cancel
    /\ nFwd < MaxDeltas
    /\ ~ReceiversDropped
    /\ \E msg \in UpstreamEvents : chan' = Append(chan, msg)
    /\ nFwd' = nFwd + 1
    /\ preLeft' = IF oneshot = "sent" THEN preLeft ELSE preLeft + 1
    /\ last' = Record("ignored", Ignored("Context"))
    /\ UNCHANGED <<idxPc, meet, oneshot, nSignals, oracleVars,
                   monPc, store, cur, todo, liq, probe, scan, cancel, watch>>

\* VesuEvent::Context(_) => {}
IndexerContext ==
    /\ idxPc = "running"
    /\ ~cancel
    /\ last' = Record("ignored", Ignored("Context"))
    /\ UNCHANGED <<indexerVars, oracleVars, monPc, store, cur, todo, liq, probe, scan, cancel, watch>>

\* OutputEvent::Finalized(_) | OutputEvent::Invalidated(_) => {}
IndexerFinalizedOrInvalidated ==
    /\ idxPc = "running"
    /\ ~cancel
    /\ last' = Record("ignored", Ignored("FinalizedOrInvalidated"))
    /\ UNCHANGED <<indexerVars, oracleVars, monPc, store, cur, todo, liq, probe, scan, cancel, watch>>

\* a Synced handler that keeps the sender and signals on every Synced
IndexerSynced_no_take ==
    /\ idxPc = "running"
    /\ ~cancel
    /\ nSignals < 2
    /\ nSignals' = nSignals + 1
    /\ IF ReceiversDropped
       THEN idxPc' = "panicked" /\ oneshot' = "closed"
       ELSE idxPc' = idxPc /\ oneshot' = "sent"
    /\ UNCHANGED <<meet, chan, nFwd, preLeft, oracleVars, monitorVars, probe, scan, cancel, watch>>

IndexerSynced ==
    /\ idxPc = "running"
    /\ ~cancel
    /\ IF meet = "Some"
       THEN /\ meet' = "None"
            /\ nSignals' = nSignals + 1
            /\ IF ReceiversDropped
               THEN idxPc' = "panicked" /\ oneshot' = "closed"
               ELSE idxPc' = idxPc /\ oneshot' = "sent"
            /\ last' = last
       ELSE /\ last' = Record("synced", SyncedAgain)
            /\ UNCHANGED <<meet, nSignals, idxPc, oneshot>>
    /\ UNCHANGED <<chan, nFwd, preLeft, oracleVars, monPc, store, cur, todo, liq, probe, scan, cancel, watch>>

\* the upstream handle completes: run_forever bails
IndexerUpstreamStopped ==
    /\ idxPc = "running"
    /\ ~cancel
    /\ DropIndexer("failed")
    /\ UNCHANGED <<chan, nFwd, preLeft, nSignals, oracleVars, monitorVars, probe, scan, cancel, watch>>

-----------------------------------------------------------------------------
(* services/monitoring *)

compute_position_key(from_address, position_event) ==
    <<from_address, position_event.collateral_address,
      position_event.debt_address, position_event.user_address>>

\* a poll that takes a closed channel for a signalled one
wait_for_indexer_is_empty_closed_is_open == oneshot = "pending"

\* oneshot::Receiver::is_empty: true unless a value was sent and is unread
wait_for_indexer_is_empty == oneshot # "sent"

\* lines 87-95: the entry of the key is removed when it is closed
RemoveIfClosed(positions, key) ==
    IF positions[key] # NoPos /\ is_closed(positions[key])
    THEN [positions EXCEPT ![key] = NoPos]
    ELSE positions

\* the history of evictions that goes with RemoveIfClosed
RecordEviction(positions, key) ==
    IF positions[key] # NoPos /\ is_closed(positions[key])
    THEN Record("evicted", [evicted |-> key, lltv |-> positions[key].lltv])
    ELSE last

\* the history of pre-sync deltas once the handling of a delta has finished
HandledOne == IF preLeft > 0 THEN preLeft - 1 ELSE 0

\* a wait_for_first_prices that returns at the first nonzero entry
MonFirstPrices_any_nonzero ==
    /\ monPc = "wait_prices"
    /\ scan = Assets => ~cancel
    /\ \E asset \in scan :
        IF is_zero(prices[asset])
        THEN scan' = Assets /\ monPc' = monPc
        ELSE scan' = {} /\ monPc' = "select"
    /\ UNCHANGED <<store, cur, todo, liq, last,
                   oracleVars, indexerVars, probe, cancel, watch>>

\* VESU_PRICES.wait_for_first_prices(): iter().all() reads one entry of the
\* cache; a zero entry ends the iteration and the loop sleeps before the
\* next one, the last nonzero entry makes the call return
MonFirstPrices ==
    /\ monPc = "wait_prices"
    /\ scan = Assets => ~cancel
    /\ \E asset \in scan :
        IF is_zero(prices[asset])
        THEN scan' = Assets /\ monPc' = monPc
        ELSE /\ scan' = scan \ {asset}
             /\ monPc' = IF scan' = {} THEN "select" ELSE monPc
    /\ UNCHANGED <<store, cur, todo, liq, last,
                   oracleVars, indexerVars, probe, cancel, watch>>

\* a recv branch that also runs while a liquidation is awaited
MonRecv_while_liquidating ==
    /\ monPc \in {"select", "liq_await"}
    /\ ~cancel
    /\ chan # <<>>
    /\ LET msg == Head(chan)
           pool == PoolName_try_from(msg.from_address)
           position_key == compute_position_key(msg.from_address, msg.event)
       IN  /\ chan' = Tail(chan)
           /\ IF ~pool.ok
              THEN /\ monPc' = "failed"
                   /\ preLeft' = HandledOne
                   /\ UNCHANGED <<store, cur, last>>
              ELSE IF store[position_key] # NoPos
              THEN LET updated == [store EXCEPT ![position_key] =
                                      update_from_delta(store[position_key], msg.event)]
                   IN  /\ store' = RemoveIfClosed(updated, position_key)
                       /\ last' = RecordEviction(updated, position_key)
                       /\ monPc' = "select"
                       /\ preLeft' = HandledOne
                       /\ UNCHANGED cur
              ELSE /\ monPc' = "lltv_await"
                   /\ cur' = msg
                   /\ UNCHANGED <<store, last, preLeft>>
    /\ UNCHANGED <<todo, liq, idxPc, meet, oneshot, nFwd,
                   nSignals, oracleVars, probe, scan, cancel, watch>>

\* a recv branch that is not raced against the cancellation token
MonRecv_ignores_cancel ==
    /\ monPc = "select"
    /\ chan # <<>>
    /\ LET msg == Head(chan)
           pool == PoolName_try_from(msg.from_address)
           position_key == compute_position_key(msg.from_address, msg.event)
       IN  /\ chan' = Tail(chan)
           /\ IF ~pool.ok
              THEN /\ monPc' = "failed"
                   /\ preLeft' = HandledOne
                   /\ UNCHANGED <<store, cur, last>>
              ELSE IF store[position_key] # NoPos
              THEN LET updated == [store EXCEPT ![position_key] =
                                      update_from_delta(store[position_key], msg.event)]
                   IN  /\ store' = RemoveIfClosed(updated, position_key)
                       /\ last' = RecordEviction(updated, position_key)
                       /\ monPc' = "select"
                       /\ preLeft' = HandledOne
                       /\ UNCHANGED cur
              ELSE /\ monPc' = "lltv_await"
                   /\ cur' = msg
                   /\ UNCHANGED <<store, last, preLeft>>
    /\ UNCHANGED <<todo, liq, idxPc, meet, oneshot, nFwd,
                   nSignals, oracleVars, probe, scan, cancel, watch>>

\* a recv branch that also runs while the first prices are awaited
MonRecv_before_first_prices ==
    /\ monPc \in {"select", "wait_prices"}
    /\ ~cancel
    /\ chan # <<>>
    /\ LET msg == Head(chan)
           pool == PoolName_try_from(msg.from_address)
           position_key == compute_position_key(msg.from_address, msg.event)
       IN  /\ chan' = Tail(chan)
           /\ IF ~pool.ok
              THEN /\ monPc' = "failed"
                   /\ preLeft' = HandledOne
                   /\ UNCHANGED <<store, cur, last>>
              ELSE IF store[position_key] # NoPos
              THEN LET updated == [store EXCEPT ![position_key] =
                                      update_from_delta(store[position_key], msg.event)]
                   IN  /\ store' = RemoveIfClosed(updated, position_key)
                       /\ last' = RecordEviction(updated, position_key)
                       /\ monPc' = "select"
                       /\ preLeft' = HandledOne
                       /\ UNCHANGED cur
              ELSE /\ monPc' = "lltv_await"
                   /\ cur' = msg
                   /\ UNCHANGED <<store, last, preLeft>>
    /\ UNCHANGED <<todo, liq, idxPc, meet, oneshot, nFwd,
                   nSignals, oracleVars, probe, scan, cancel, watch>>

\* a recv branch that takes the delta forwarded last
MonRecv_takes_newest ==
    /\ monPc = "select"
    /\ ~cancel
    /\ chan # <<>>
    /\ LET msg == chan[Len(chan)]
           pool == PoolName_try_from(msg.from_address)
           position_key == compute_position_key(msg.from_address, msg.event)
       IN  /\ chan' = SubSeq(chan, 1, Len(chan) - 1)
           /\ IF ~pool.ok
              THEN /\ monPc' = "failed"
                   /\ preLeft' = HandledOne
                   /\ UNCHANGED <<store, cur, last>>
              ELSE IF store[position_key] # NoPos
              THEN LET updated == [store EXCEPT ![position_key] =
                                      update_from_delta(store[position_key], msg.event)]
                   IN  /\ store' = RemoveIfClosed(updated, position_key)
                       /\ last' = RecordEviction(updated, position_key)
                       /\ monPc' = "select"
                       /\ preLeft' = HandledOne
                       /\ UNCHANGED cur
              ELSE /\ monPc' = "lltv_await"
                   /\ cur' = msg
                   /\ UNCHANGED <<store, last, preLeft>>
    /\ UNCHANGED <<todo, liq, idxPc, meet, oneshot, nFwd,
                   nSignals, oracleVars, probe, scan, cancel, watch>>

\* a recv branch that logs and skips the delta of an unknown pool
MonRecv_skips_unknown_pool ==
    /\ monPc = "select"
    /\ ~cancel
    /\ chan # <<>>
    /\ LET msg == Head(chan)
           pool == PoolName_try_from(msg.from_address)
           position_key == compute_position_key(msg.from_address, msg.event)
       IN  /\ chan' = Tail(chan)
           /\ IF ~pool.ok
              THEN /\ monPc' = "select"
                   /\ preLeft' = HandledOne
                   /\ UNCHANGED <<store, cur, last>>
              ELSE IF store[position_key] # NoPos
              THEN LET updated == [store EXCEPT ![position_key] =
                                      update_from_delta(store[position_key], msg.event)]
                   IN  /\ store' = RemoveIfClosed(updated, position_key)
                       /\ last' = RecordEviction(updated, position_key)
                       /\ monPc' = "select"
                       /\ preLeft' = HandledOne
                       /\ UNCHANGED cur
              ELSE /\ monPc' = "lltv_await"
                   /\ cur' = msg
                   /\ UNCHANGED <<store, last, preLeft>>
    /\ UNCHANGED <<todo, liq, idxPc, meet, oneshot, nFwd,
                   nSignals, oracleVars, probe, scan, cancel, watch>>

\* the recv branch: a delta of an unknown pool ends the loop with Err; a
\* delta of a stored position is applied; otherwise VesuPosition::new is
\* awaited
MonRecv ==
    /\ monPc = "select"
    /\ ~cancel
    /\ chan # <<>>
    /\ LET msg == Head(chan)
           pool == PoolName_try_from(msg.from_address)
           position_key == compute_position_key(msg.from_address, msg.event)
       IN  /\ chan' = Tail(chan)
           /\ IF ~pool.ok
              THEN /\ monPc' = "failed"
                   /\ preLeft' = HandledOne
                   /\ UNCHANGED <<store, cur, last>>
              ELSE IF store[position_key] # NoPos
              THEN LET updated == [store EXCEPT ![position_key] =
                                      update_from_delta(store[position_key], msg.event)]
                   IN  /\ store' = RemoveIfClosed(updated, position_key)
                       /\ last' = RecordEviction(updated, position_key)
                       /\ monPc' = "select"
                       /\ preLeft' = HandledOne
                       /\ UNCHANGED cur
              ELSE /\ monPc' = "lltv_await"
                   /\ cur' = msg
                   /\ UNCHANGED <<store, last, preLeft>>
    /\ UNCHANGED <<todo, liq, idxPc, meet, oneshot, nFwd,
                   nSignals, oracleVars, probe, scan, cancel, watch>>

\* a creation whose error ends the monitoring loop, as a `?` would
MonNewDone_error_propagates ==
    /\ monPc = "lltv_await"
    /\ ~cancel
    /\ \E call_ok \in BOOLEAN, max_ltv \in LltvVals :
        LET position_key == compute_position_key(cur.from_address, cur.event)
            created == VesuPosition_new(cur.from_address, cur.event, max_ltv)
            inserted == IF call_ok /\ created.ok
                        THEN [store EXCEPT ![position_id(created.position)] = created.position]
                        ELSE store
        IN  /\ store' = RemoveIfClosed(inserted, position_key)
            /\ last' = IF call_ok /\ created.ok
                       THEN RecordEviction(inserted, position_key)
                       ELSE Record("new_failed", NewFailed(position_key))
            /\ monPc' = IF call_ok /\ created.ok THEN "select" ELSE "failed"
    /\ cur' = NoDelta
    /\ preLeft' = HandledOne
    /\ UNCHANGED <<todo, liq, oracleVars, probe, scan, cancel, watch,
                   idxPc, meet, oneshot, chan, nFwd, nSignals>>

\* a creation that stores the position it has built when the ensure on
\* the lltv fails
MonNewDone_keeps_failed ==
    /\ monPc = "lltv_await"
    /\ ~cancel
    /\ \E call_ok \in BOOLEAN, max_ltv \in LltvVals :
        LET position_key == compute_position_key(cur.from_address, cur.event)
            created == VesuPosition_new(cur.from_address, cur.event, max_ltv)
            built == VesuPosition_new(cur.from_address, cur.event, Dec(5, 1)).position
            inserted == IF call_ok
                        THEN [store EXCEPT ![position_key] = [built EXCEPT !.lltv = max_ltv]]
                        ELSE store
        IN  /\ store' = RemoveIfClosed(inserted, position_key)
            /\ last' = IF call_ok /\ created.ok
                       THEN RecordEviction(inserted, position_key)
                       ELSE Record("new_failed", NewFailed(position_key))
    /\ monPc' = "select"
    /\ cur' = NoDelta
    /\ preLeft' = HandledOne
    /\ UNCHANGED <<todo, liq, oracleVars, probe, scan, cancel, watch,
                   idxPc, meet, oneshot, chan, nFwd, nSignals>>

\* VesuPosition::new returns: the pair_config call failed, or it returned
\* max_ltv; the position is inserted, then removed if it is closed
MonNewDone ==
    /\ monPc = "lltv_await"
    /\ ~cancel
    /\ \E call_ok \in BOOLEAN, max_ltv \in LltvVals :
        LET position_key == compute_position_key(cur.from_address, cur.event)
            created == VesuPosition_new(cur.from_address, cur.event, max_ltv)
            inserted == IF call_ok /\ created.ok
                        THEN [store EXCEPT ![position_id(created.position)] = created.position]
                        ELSE store
        IN  /\ store' = RemoveIfClosed(inserted, position_key)
            /\ last' = IF call_ok /\ created.ok
                       THEN RecordEviction(inserted, position_key)
                       ELSE IF call_ok /\ "zero_lltv" \in watch
                       THEN ZeroLltv(position_key)
                       ELSE Record("new_failed", NewFailed(position_key))
    /\ monPc' = "select"
    /\ cur' = NoDelta
    /\ preLeft' = HandledOne
    /\ UNCHANGED <<todo, liq, oracleVars, probe, scan, cancel, watch,
                   idxPc, meet, oneshot, chan, nFwd, nSignals>>

\* a tick that receives the signal instead of polling it
MonTickBarrier_consuming ==
    /\ monPc = "select"
    /\ ~cancel
    /\ IF wait_for_indexer_is_empty
       THEN monPc' = "select" /\ last' = Record("tick", Tick("skipped_barrier")) /\ oneshot' = oneshot
       ELSE monPc' = "tick_chan" /\ last' = last /\ oneshot' = "closed"
    /\ UNCHANGED <<store, cur, todo, liq, oracleVars, probe, scan, cancel, watch,
                   idxPc, meet, chan, nFwd, preLeft, nSignals>>

\* the tick branch, first operand of the guard: the barrier is polled
MonTickBarrier ==
    /\ monPc = "select"
    /\ ~cancel
    /\ IF wait_for_indexer_is_empty
       THEN monPc' = "select" /\ last' = Record("tick", Tick("skipped_barrier"))
       ELSE monPc' = "tick_chan" /\ last' = last
    /\ UNCHANGED <<store, cur, todo, liq, oracleVars, indexerVars, probe, scan, cancel, watch>>

\* a tick whose backlog test is inverted
MonTickChan_inverted ==
    /\ monPc = "tick_chan"
    /\ IF chan = <<>>
       THEN monPc' = "select" /\ last' = Record("tick", Tick("skipped_backlog")) /\ todo' = todo
       ELSE /\ monPc' = "sweep"
            /\ last' = Record("tick", Tick("swept"))
            /\ todo' = {k \in Keys : store[k] # NoPos}
    /\ UNCHANGED <<store, cur, liq, oracleVars, indexerVars, probe, scan, cancel, watch>>

\* a tick without the backlog test
MonTickChan_no_backlog_test ==
    /\ monPc = "tick_chan"
    /\ monPc' = "sweep"
    /\ last' = Record("tick", Tick("swept"))
    /\ todo' = {k \in Keys : store[k] # NoPos}
    /\ UNCHANGED <<store, cur, liq, oracleVars, indexerVars, probe, scan, cancel, watch>>

\* the tick branch, second operand of the guard: a backlog skips the
\* sweep, otherwise the iteration over current_positions starts
MonTickChan ==
    /\ monPc = "tick_chan"
    /\ IF chan # <<>>
       THEN monPc' = "select" /\ last' = Record("tick", Tick("skipped_backlog")) /\ todo' = todo
       ELSE /\ monPc' = "sweep"
            /\ last' = Record("tick", Tick("swept"))
            /\ todo' = {k \in Keys : store[k] # NoPos}
    /\ UNCHANGED <<store, cur, liq, oracleVars, indexerVars, probe, scan, cancel, watch>>

\* a sweep that liquidates every position that is not closed
MonSweepStep_liquidates_all_open ==
    /\ monPc = "sweep"
    /\ \E k \in todo :
        LET p == store[k]
            verdict == IF is_closed(p) THEN "closed"
                       ELSE IF is_liquidable(p, prices) = "panic" THEN "panic"
                       ELSE "true"
        IN  /\ todo' = todo \ {k}
            /\ monPc' = CASE verdict = "panic" -> "panicked"
                          [] verdict = "true" -> "liq_await"
                          [] OTHER -> "sweep"
            /\ liq' = IF verdict = "true" THEN k ELSE liq
    /\ UNCHANGED <<store, cur, last, oracleVars, indexerVars, probe, scan, cancel, watch>>

\* the history of a sweep that reads the cache between two inserts of a cycle
SweepRead ==
    IF oraclePc = "publish" /\ "before" \in DOMAIN last /\ prices # last.before
    THEN Record("cycle", MidCycleRead(prices))
    ELSE last

\* one iteration of the loop over current_positions.values()
MonSweepStep ==
    /\ monPc = "sweep"
    /\ \E k \in todo :
        LET p == store[k]
            verdict == IF is_closed(p) THEN "closed" ELSE is_liquidable(p, prices)
        IN  /\ todo' = todo \ {k}
            /\ monPc' = CASE verdict = "panic" -> "panicked"
                          [] verdict = "true" -> "liq_await"
                          [] OTHER -> "sweep"
            /\ liq' = IF verdict = "true" THEN k ELSE liq
    /\ last' = SweepRead
    /\ UNCHANGED <<store, cur, oracleVars, indexerVars, probe, scan, cancel, watch>>

\* the loop over current_positions is exhausted
MonSweepEnd ==
    /\ monPc = "sweep"
    /\ todo = {}
    /\ monPc' = "select"
    /\ UNCHANGED <<store, cur, todo, liq, last,
                   oracleVars, indexerVars, probe, scan, cancel, watch>>

\* a sweep that evaluates again the position whose liquidation failed
MonLiqDone_retries ==
    /\ monPc = "liq_await"
    /\ ~cancel
    /\ \E outcome \in {"ok", "not-undercollateralized", "error"} :
        /\ monPc' = "sweep"
        /\ liq' = NoKey
        /\ last' = IF outcome = "ok" THEN last ELSE Record("liq_failed", LiqFailed(liq))
        /\ todo' = IF outcome = "ok" THEN todo ELSE todo \cup {liq}
    /\ UNCHANGED <<store, cur, oracleVars, indexerVars, probe, scan, cancel, watch>>

\* a sweep that drops the position it has liquidated from the store
MonLiqDone_removes_liquidated ==
    /\ monPc = "liq_await"
    /\ ~cancel
    /\ \E outcome \in {"ok", "not-undercollateralized", "error"} :
        /\ monPc' = "sweep"
        /\ liq' = NoKey
        /\ last' = IF outcome = "ok" THEN last ELSE Record("liq_failed", LiqFailed(liq))
        /\ store' = IF outcome = "ok" THEN [store EXCEPT ![liq] = NoPos] ELSE store
    /\ UNCHANGED <<cur, todo, oracleVars, indexerVars, probe, scan, cancel, watch>>

\* liquidate_position returns Ok or Err; either way the sweep goes on
MonLiqDone ==
    /\ monPc = "liq_await"
    /\ ~cancel
    /\ \E outcome \in {"ok", "not-undercollateralized", "error"} :
        /\ monPc' = "sweep"
        /\ liq' = NoKey
        /\ last' = IF outcome = "ok" THEN last ELSE Record("liq_failed", LiqFailed(liq))
    /\ UNCHANGED <<store, cur, todo, oracleVars, indexerVars, probe, scan, cancel, watch>>

-----------------------------------------------------------------------------
(* The system *)

ProbeIdle == [idle |-> TRUE]

InitSystem ==
    /\ prices = [asset \in Assets |-> ZERO]
    /\ oraclePc = "fetch"
    /\ pending = {}
    /\ idxPc = "running"
    /\ meet = "Some"
    /\ oneshot = "pending"
    /\ chan = <<>>
    /\ nFwd = 0
    /\ preLeft = 0
    /\ nSignals = 0
    /\ monPc = "wait_prices"
    /\ store = [k \in Keys |-> NoPos]
    /\ cur = NoDelta
    /\ todo = {}
    /\ liq = NoKey
    /\ last = NoEvent
    /\ scan = Assets
    /\ cancel = FALSE

\* the history records the timer ticks
Init == InitSystem /\ probe = ProbeIdle /\ watch = {"tick"}

Next ==
    \/ OracleJoin
    \/ OraclePublish
    \/ IndexerPosition
    \/ IndexerLiquidation
    \/ IndexerContext
    \/ IndexerFinalizedOrInvalidated
    \/ IndexerSynced
    \/ IndexerUpstreamStopped
    \/ MonFirstPrices
    \/ MonRecv
    \/ MonNewDone
    \/ MonTickBarrier
    \/ MonTickChan
    \/ MonSweepStep
    \/ MonSweepEnd
    \/ MonLiqDone

Spec == Init /\ [][Next]_vars

\* the same system without a history
InitPlain == InitSystem /\ probe = ProbeIdle /\ watch = {}

SpecPlain == InitPlain /\ [][Next]_vars

\* the same system; the history records evictions and failed calls
InitStore ==
    InitSystem /\ probe = ProbeIdle /\ watch = {"evicted", "new_failed", "liq_failed"}

SpecStore == InitStore /\ [][Next]_vars

\* the same system; the history records the Synced notifications
InitBarrier == InitSystem /\ probe = ProbeIdle /\ watch = {"synced"}

SpecBarrier == InitBarrier /\ [][Next]_vars

\* the same system; the history records the upstream messages without delta
InitUpstream == InitSystem /\ probe = ProbeIdle /\ watch = {"ignored"}

SpecUpstream == InitUpstream /\ [][Next]_vars

\* the system with the debt-free deltas among its upstream events; the
\* history records the timer ticks
IndexerDebtFree ==
    \E msg \in DebtFreeEvents :
        /\ Forward(msg)
        /\ last' = IF ReceiversDropped THEN Record("send_failed", SendFailed)
                   ELSE Record("forwarded", PositionForwarded)

NextDebtFree == Next \/ IndexerDebtFree

SpecDebtFree == Init /\ [][NextDebtFree]_vars

\* the system under fair scheduling of the monitoring loop: select! picks
\* at random among its ready branches, so the recv branch and the tick
\* branch are each taken again and again while they are ready again and
\* again; a step that is ready and stays so is taken, and VesuPosition::new
\* and liquidate_position return
MonFairness ==
    /\ SF_vars(MonRecv)
    /\ SF_vars(MonTickBarrier)
    /\ WF_vars(MonNewDone)
    /\ WF_vars(MonTickChan)
    /\ WF_vars(MonSweepStep)
    /\ WF_vars(MonSweepEnd)
    /\ WF_vars(MonLiqDone)

SpecLive == InitPlain /\ [][Next]_vars /\ MonFairness

\* the same system; the history records the lookups that returned zero
InitLltv == InitSystem /\ probe = ProbeIdle /\ watch = {"zero_lltv"}

SpecLltv == InitLltv /\ [][Next]_vars

\* the same system; the history records the sends that failed and the arm
\* that sent the newest delta
InitForward ==
    InitSystem /\ probe = ProbeIdle /\ watch = {"send_failed", "forwarded"}

SpecForward == InitForward /\ [][Next]_vars

\* the same system; the history records the assets that have been priced
InitPriced == InitSystem /\ probe = ProbeIdle /\ watch = {"priced"}

SpecPriced == InitPriced /\ [][Next]_vars

\* the same system; the history records the refresh cycles and their failures
InitOracle == InitSystem /\ probe = ProbeIdle /\ watch = {"cycle", "fetch_failed"}

SpecOracle == InitOracle /\ [][Next]_vars

-----------------------------------------------------------------------------
(* Cancellation of the service group: each task awaits
   ctx.run_until_cancelled(service.run_forever()) *)

\* the cancellation token is set
RequestCancel ==
    /\ ~cancel
    /\ cancel' = TRUE
    /\ UNCHANGED <<oracleVars, indexerVars, monitorVars, probe, scan, watch>>

\* the oracle task, suspended in join_all or in sleep, is polled: the
\* run_forever future is dropped and the task returns Ok
OracleCancelled ==
    /\ cancel
    /\ oraclePc = "fetch"
    /\ oraclePc' = "cancelled"
    /\ UNCHANGED <<prices, pending, indexerVars, monitorVars, probe, scan, cancel, watch>>

\* the indexer task, suspended in its select, is polled: the future and
\* with it the IndexerService are dropped and the task returns Ok
IndexerCancelled ==
    /\ cancel
    /\ idxPc = "running"
    /\ DropIndexer("cancelled")
    /\ UNCHANGED <<chan, nFwd, preLeft, nSignals, oracleVars, monitorVars,
                   probe, scan, cancel, watch>>

\* the await points of MonitoringService::run_forever: the sleep of
\* wait_for_first_prices, the select, VesuPosition::new, liquidate_position
MonSuspended ==
    \/ monPc = "wait_prices" /\ scan = Assets
    \/ monPc \in {"select", "lltv_await", "liq_await"}

\* the monitoring task, suspended at an await point, is polled: the future
\* is dropped where it stands and the task returns Ok
MonCancelled ==
    /\ cancel
    /\ MonSuspended
    /\ monPc' = "cancelled"
    /\ UNCHANGED <<store, cur, todo, liq, last, oracleVars, indexerVars,
                   probe, scan, cancel, watch>>

InitCancel == InitSystem /\ probe = ProbeIdle /\ watch = {}

NextCancel ==
    \/ Next
    \/ RequestCancel
    \/ OracleCancelled
    \/ IndexerCancelled
    \/ MonCancelled

SpecCancel == InitCancel /\ [][NextCancel]_vars

-----------------------------------------------------------------------------
(* is_liquidable on free-standing positions *)

ProbeCollaterals == {0, 500, 1000, 2000}
ProbeDebts == {0, 300, 599, 600, 601}
ProbeLltvs == {ZERO, Dec(5, 1), Dec(6, 1)}
ProbePrices == [Assets -> {Dec(0, 0), Dec(1, 0), Dec(2, 0)}]

ProbePositions ==
    {[user_address |-> "u1",
      pool_name |-> "Prime",
      collateral |-> [currency |-> "WBTC", amount |-> Dec(c, 2)],
      debt |-> [currency |-> "USDC", amount |-> Dec(d, 2)],
      lltv |-> l] : c \in ProbeCollaterals, d \in ProbeDebts, l \in ProbeLltvs}

InitLiq ==
    /\ InitSystem
    /\ probe \in {[position |-> p, prices |-> pr, out |-> "none"] :
                    p \in ProbePositions, pr \in ProbePrices}
    /\ watch = {}

ProbeCall ==
    /\ probe.out = "none"
    /\ probe' = [probe EXCEPT !.out = is_liquidable(probe.position, probe.prices)]
    /\ UNCHANGED <<oracleVars, indexerVars, monitorVars, scan, cancel, watch>>

NextLiq == ProbeCall

SpecLiq == InitLiq /\ [][NextLiq]_vars

-----------------------------------------------------------------------------
(* update_from_delta on free-standing positions *)

\* collateral and debt deltas in on-chain units: small ones, and ones near
\* the largest integer a Decimal holds (5 * 10^28 + 1 and 4 * 10^28 + 3)
ProbeDeltaVals ==
    {<<Wide(FALSE, <<1000, 0, 0, 0>>, 0), Wide(FALSE, <<599, 0, 0, 0>>, 0)>>,
     <<Wide(TRUE, <<1000, 0, 0, 0>>, 0), Wide(TRUE, <<599, 0, 0, 0>>, 0)>>,
     <<Wide(FALSE, <<1, 0, 0, 50>>, 0), Wide(FALSE, <<3, 0, 0, 40>>, 0)>>,
     <<Wide(TRUE, <<1, 0, 0, 50>>, 0), Wide(TRUE, <<3, 0, 0, 40>>, 0)>>}

ProbeDeltas ==
    {[collateral_address |-> "WBTC",
      debt_address |-> "USDC",
      user_address |-> "u1",
      collateral_delta |-> v[1],
      debt_delta |-> v[2]] : v \in ProbeDeltaVals}

ProbeDeltaSeqs == UNION {[1..n -> ProbeDeltas] : n \in 1..MaxSeqLen}

\* a position as VesuPosition::new holds it before its first delta
FreshPosition ==
    [user_address |-> "u1",
     pool_name |-> "Prime",
     collateral |-> Asset_from_address("WBTC"),
     debt |-> Asset_from_address("USDC"),
     lltv |-> Dec(5, 1)]

\* probe.trace holds the position before the first delta and after each
\* delta applied so far
InitDelta ==
    /\ InitSystem
    /\ probe \in {[deltas |-> ds, trace |-> <<FreshPosition>>] : ds \in ProbeDeltaSeqs}
    /\ watch = {}

ProbeApply ==
    /\ Len(probe.trace) <= Len(probe.deltas)
    /\ LET p == probe.trace[Len(probe.trace)]
           delta == probe.deltas[Len(probe.trace)]
       IN  probe' = [probe EXCEPT !.trace = Append(@, update_from_delta(p, delta))]
    /\ UNCHANGED <<oracleVars, indexerVars, monitorVars, scan, cancel, watch>>

NextDelta == ProbeApply

SpecDelta == InitDelta /\ [][NextDelta]_vars

-----------------------------------------------------------------------------
(* Properties *)

\* the latest recorded event is an eviction
WasEvicted == "evicted" \in DOMAIN last

SomeStoredLiquidable ==
    \E k \in Keys : store[k] # NoPos /\ is_liquidable(store[k], prices) = "true"

\* C1: the monitoring loop is past the barrier test of a tick, sweeping,
\* awaiting a liquidation or stopped inside a sweep only if the indexer has
\* sent the barrier signal; a sender dropped without a signal never opens
\* the barrier.
C1_NoEvaluationBeforeBarrier ==
    monPc \in {"tick_chan", "sweep", "liq_await", "panicked"} => oneshot = "sent"

\* a tick was skipped at the barrier after the indexer dropped the sender
\* without signalling, with a liquidable position stored and no backlog
C1_Witness ==
    /\ last = Tick("skipped_barrier")
    /\ oneshot = "closed"
    /\ nSignals = 0
    /\ monPc = "select"
    /\ chan = <<>>
    /\ SomeStoredLiquidable

\* C2: a tick that finds the barrier open and at least one delta in the
\* channel returns to the select without starting a sweep: no position is
\* visited and no liquidation is started.
C2_BacklogSkipsSweep ==
    [][(monPc = "tick_chan" /\ chan # <<>> /\ monPc' # "tick_chan")
        => (monPc' = "select" /\ last' = Tick("skipped_backlog")
            /\ todo' = todo /\ liq' = liq /\ store' = store)]_vars

\* a tick was skipped for a backlog although the barrier is open and a
\* liquidable position is stored
C2_Witness ==
    /\ last = Tick("skipped_backlog")
    /\ monPc = "select"
    /\ oneshot = "sent"
    /\ chan # <<>>
    /\ SomeStoredLiquidable

\* C3: while a sweep runs, every delta forwarded before the barrier signal
\* has been taken from the channel and its handling (update, or creation,
\* followed by the eviction test) has finished.
C3_SweepAfterPreSyncDeltas ==
    monPc \in {"sweep", "liq_await"} => preLeft = 0

\* the barrier is open and a tick has passed the barrier test while a
\* pre-sync delta is still in the channel
C3_Witness ==
    /\ monPc = "tick_chan"
    /\ oneshot = "sent"
    /\ preLeft >= 1
    /\ Len(chan) >= preLeft

\* C4: no stored position has a collateral balance that is zero or negative.
C4_NoClosedPositionStored ==
    \A k \in Keys : store[k] # NoPos => store[k].collateral.amount.mant > 0

\* a position was evicted by the handling of the second delta and its key is
\* absent from the store
C4_Witness ==
    /\ WasEvicted
    /\ store[last.evicted] = NoPos
    /\ nFwd = 2
    /\ chan = <<>>
    /\ monPc = "select"

\* C5: an entry appears in the store only when VesuPosition::new returns for
\* the delta being handled, and then its balances are that delta divided by
\* 10^18 and its lltv is a nonzero result of the lookup.
C5_ReopenedPositionIsFresh ==
    [][\A k \in Keys :
        (store[k] = NoPos /\ store'[k] # NoPos)
        => /\ monPc = "lltv_await"
           /\ k = <<cur.from_address, cur.event.collateral_address,
                    cur.event.debt_address, cur.event.user_address>>
           /\ store'[k].collateral.amount =
                [mant |-> cur.event.collateral_delta.mant, exp |-> 18]
           /\ store'[k].debt.amount =
                [mant |-> cur.event.debt_delta.mant, exp |-> 18]
           /\ store'[k].lltv \in LltvVals
           /\ store'[k].lltv.mant # 0]_vars

\* the key of an evicted position holds a position again, with another lltv
C5_Witness ==
    /\ WasEvicted
    /\ store[last.evicted] # NoPos
    /\ store[last.evicted].lltv # last.lltv

\* C6: the oneshot sender is used on the first Synced only; every later
\* Synced leaves the whole state as it is and the indexer keeps running.
C6_BarrierSignalledOnce ==
    [][/\ (nSignals' # nSignals) => (meet = "Some" /\ meet' = "None" /\ nSignals' = 1)
       /\ (last' = SyncedAgain /\ last # SyncedAgain)
            => (nSignals = 1 /\ idxPc' = "running"
                /\ UNCHANGED <<idxPc, meet, oneshot, chan, nFwd, preLeft, nSignals,
                               oracleVars, monPc, store, cur, todo, liq>>)]_vars

\* a second Synced was handled after the signal
C6_Witness ==
    /\ last = SyncedAgain
    /\ nSignals = 1
    /\ oneshot = "sent"
    /\ idxPc = "running"

\* C7: once the signal is in the channel it stays readable (no tick takes
\* it out), and no tick is skipped at the barrier from then on.
C7_BarrierStaysOpen ==
    [][(oneshot = "sent")
        => (oneshot' = "sent" /\ (last' = Tick("skipped_barrier") => last = Tick("skipped_barrier")))]_vars

\* after a tick that swept, a later tick has passed the barrier test again,
\* the indexer having stopped meanwhile
C7_Witness ==
    /\ last = Tick("swept")
    /\ monPc = "tick_chan"
    /\ idxPc = "failed"

-----------------------------------------------------------------------------
(* Properties of is_liquidable *)

ProbeDone == probe # ProbeIdle /\ probe.out # "none"

\* debt and collateral values of the probed position in units of 10^-2 USD
ProbeDebtValue == probe.position.debt.amount.mant * probe.prices["USDC"].mant
ProbeCollateralValue == probe.position.collateral.amount.mant * probe.prices["WBTC"].mant

\* ltv >= lltv, for a nonzero collateral value
ProbeLtvAtLeastLltv ==
    LET l == probe.position.lltv
    IN  IF ProbeCollateralValue > 0
        THEN ProbeDebtValue * Pow10(l.exp) >= l.mant * ProbeCollateralValue
        ELSE ProbeDebtValue * Pow10(l.exp) <= l.mant * ProbeCollateralValue

\* C8: with lltv > 0 and a defined ltv, is_liquidable() is true when
\* ltv >= lltv and false when ltv < lltv.
C8_LiquidableIffLtvAtLeastLltv ==
    (ProbeDone /\ probe.position.lltv.mant > 0 /\ ProbeCollateralValue # 0)
    => probe.out = (IF ProbeLtvAtLeastLltv THEN "true" ELSE "false")

\* C9: is_liquidable() is false for every position whose lltv is zero.
C9_ZeroLltvNeverLiquidable ==
    (ProbeDone /\ probe.position.lltv.mant = 0) => probe.out = "false"

\* is_liquidable() returned false for lltv 0 with zero collateral, nonzero
\* debt and zero prices
C9_Witness ==
    /\ ProbeDone
    /\ probe.out = "false"
    /\ probe.position.lltv.mant = 0
    /\ probe.position.collateral.amount.mant = 0
    /\ probe.position.debt.amount.mant > 0
    /\ \A a \in Assets : probe.prices[a].mant = 0

\* C10: with collateral 0, debt > 0 and lltv > 0, is_liquidable() returns true.
C10_ZeroCollateralIsLiquidable ==
    (ProbeDone /\ probe.position.collateral.amount.mant = 0
        /\ probe.position.debt.amount.mant > 0 /\ probe.position.lltv.mant > 0)
    => probe.out = "true"

-----------------------------------------------------------------------------
(* Properties of the sweep and of the error paths *)

\* C11: the evaluation of a stored position by the sweep always yields a
\* result: the monitoring loop never stops on a division by zero.
C11_SweepEvaluationDefined == monPc # "panicked"

\* lltv - 0.005 < ltv < lltv for the debt and collateral values of p at
\* the prices pr, the collateral value being positive
LtvJustBelowLltv(p, pr) ==
    LET dv == debt_value_in_usd(p, pr)
        cv == collateral_value_in_usd(p, pr)
        e == Max(dv.exp, cv.exp)
        d == Rescale(dv, e)
        c == Rescale(cv, e)
        l == Rescale(p.lltv, 3)
    IN  /\ c > 0
        /\ d * 1000 < l * c
        /\ d * 1000 > (l - 5) * c

\* C12: when the sweep evaluates a position whose ltv lies strictly between
\* lltv - 0.005 and lltv, it goes on with the next position and starts no
\* liquidation.
C12_NearLiquidableNotLiquidated ==
    [][\A k \in Keys :
        (monPc = "sweep" /\ k \in todo /\ k \notin todo'
            /\ LtvJustBelowLltv(store[k], prices))
        => (monPc' = "sweep" /\ liq' = liq /\ liq' = NoKey)]_vars

\* a sweep has gone past a stored position with ltv 0.599 and lltv 0.6
\* without starting a liquidation
C12_Witness ==
    /\ monPc = "sweep"
    /\ last = Tick("swept")
    /\ liq = NoKey
    /\ \E k \in Keys : /\ store[k] # NoPos
                       /\ k \notin todo
                       /\ LtvJustBelowLltv(store[k], prices)
                       /\ is_almost_liquidable(store[k], prices)
                       /\ store[k].lltv = Dec(6, 1)

\* Exact decimal arithmetic to compare the balances with

\* a and b denote the same number
ValueEq(a, b) ==
    IF DecIsZero(a) \/ DecIsZero(b) THEN DecIsZero(a) /\ DecIsZero(b)
    ELSE LET e == Max(a.exp, b.exp)
         IN  /\ a.neg = b.neg
             /\ MagMulPow10(a.limbs, e - a.exp) = MagMulPow10(b.limbs, e - b.exp)

\* the sum of a and b at the scale VESU_SCALE, whatever its size
ExactAdd(a, b) ==
    LET x == MagMulPow10(a.limbs, VESU_SCALE - a.exp)
        y == MagMulPow10(b.limbs, VESU_SCALE - b.exp)
    IN  IF a.neg = b.neg THEN Wide(a.neg, MagAdd(x, y), VESU_SCALE)
        ELSE IF MagGt(y, x) THEN Wide(b.neg, MagSub(y, x), VESU_SCALE)
        ELSE Wide(a.neg /\ x # y, MagSub(x, y), VESU_SCALE)

RECURSIVE ExactSum(_)
ExactSum(ds) ==
    IF ds = <<>> THEN Wide(FALSE, MagZero, VESU_SCALE)
    ELSE ExactAdd(ExactSum(Tail(ds)), [Head(ds) EXCEPT !.exp = @ + VESU_SCALE])

RECURSIVE ApplyAll(_, _)
ApplyAll(p, ds) ==
    IF ds = <<>> THEN p ELSE ApplyAll(update_from_delta(p, Head(ds)), Tail(ds))

Orders(n) == {f \in [1..n -> 1..n] : \A i, j \in 1..n : f[i] = f[j] => i = j}

ProbeAllApplied == "deltas" \in DOMAIN probe /\ Len(probe.trace) = Len(probe.deltas) + 1

\* C13: after all deltas of a sequence are applied to a fresh position, its
\* balances are the sums of the scaled deltas, and applying the deltas in
\* any other order gives the same balances.
C13_BalancesAreSumOfDeltas ==
    ProbeAllApplied =>
        LET n == Len(probe.deltas)
            final == probe.trace[n + 1]
        IN  /\ ValueEq(final.collateral.amount,
                       ExactSum([i \in 1..n |-> probe.deltas[i].collateral_delta]))
            /\ ValueEq(final.debt.amount,
                       ExactSum([i \in 1..n |-> probe.deltas[i].debt_delta]))
            /\ \A f \in Orders(n) :
                LET other == ApplyAll(FreshPosition, [i \in 1..n |-> probe.deltas[f[i]]])
                IN  /\ ValueEq(other.collateral.amount, final.collateral.amount)
                    /\ ValueEq(other.debt.amount, final.debt.amount)

\* the delta with both components negated
InverseDelta(delta) ==
    [delta EXCEPT !.collateral_delta.neg = ~@, !.debt_delta.neg = ~@]

\* C14: a delta followed by its inverse leaves the balances of the position
\* as they were before the delta.
C14_InverseDeltaRestoresBalances ==
    "deltas" \in DOMAIN probe =>
        \A i \in 1..Len(probe.deltas) :
            (i + 2 <= Len(probe.trace) /\ probe.deltas[i + 1] = InverseDelta(probe.deltas[i]))
            => /\ ValueEq(probe.trace[i + 2].collateral.amount, probe.trace[i].collateral.amount)
               /\ ValueEq(probe.trace[i + 2].debt.amount, probe.trace[i].debt.amount)

\* C15: when VesuPosition::new fails for the delta of an absent key, the
\* store is left as it is, the key stays absent, and the monitoring loop
\* is back at its select.
C15_FailedCreationIsDropped ==
    [][\A k \in Keys :
        (monPc = "lltv_await" /\ monPc' # "lltv_await"
            /\ last' = NewFailed(k) /\ last # NewFailed(k))
        => /\ k = compute_position_key(cur.from_address, cur.event)
           /\ store[k] = NoPos
           /\ store' = store
           /\ monPc' = "select"
           /\ chan' = chan]_vars

\* a creation failed for a key, and the next delta of the same key was
\* handled and created the position
C15_Witness ==
    /\ "new_failed" \in DOMAIN last
    /\ store[last.new_failed] # NoPos
    /\ monPc = "select"
    /\ nFwd = 2
    /\ chan = <<>>

\* C16: when the upstream handle completes the indexer loop returns an
\* error (it does not panic and does not go on), and once it has returned
\* nothing is forwarded or signalled any more and it is never running again.
C16_UpstreamStopEndsIndexer ==
    [][/\ (idxPc = "running" /\ idxPc' # "running" /\ ~ReceiversDropped)
            => (idxPc' = "failed" /\ chan' = chan /\ nFwd' = nFwd /\ nSignals' = nSignals)
       /\ (idxPc = "failed")
            => (idxPc' = "failed" /\ nFwd' = nFwd /\ Len(chan') <= Len(chan)
                /\ nSignals' = nSignals /\ oneshot' = oneshot /\ meet' = "None")]_vars

\* the upstream stopped after one delta although more could follow; the
\* monitoring loop is alive and has handled the delta
C16_Witness ==
    /\ idxPc = "failed"
    /\ monPc = "select"
    /\ nFwd = 1
    /\ nFwd < MaxDeltas
    /\ chan = <<>>
    /\ \E k \in Keys : store[k] # NoPos

\* C17: handling a Context event, a Finalized notice or an Invalidated
\* notice forwards no delta and leaves the barrier, the channel, the store
\* and both loops as they are.
C17_NoDeltaMessagesChangeNothing ==
    [][\A kind \in {"Context", "FinalizedOrInvalidated"} :
        (last' = Ignored(kind) /\ last # Ignored(kind))
        => (idxPc' = "running"
            /\ UNCHANGED <<idxPc, meet, oneshot, chan, nFwd, preLeft, nSignals,
                           oracleVars, monPc, store, cur, todo, liq>>)]_vars

\* a Finalized or Invalidated notice was handled while a delta was in the
\* channel, a position was stored and the barrier was not yet signalled
C17_Witness ==
    /\ last = Ignored("FinalizedOrInvalidated")
    /\ idxPc = "running"
    /\ chan # <<>>
    /\ oneshot = "pending"
    /\ \E k \in Keys : store[k] # NoPos

\* C18: when liquidate_position fails, the sweep goes on with the positions
\* it has not visited, the failed position is not among them, it is still
\* stored, and the monitoring loop is running.
C18_FailedLiquidationIsNotRetried ==
    [][\A k \in Keys :
        (monPc = "liq_await" /\ last' = LiqFailed(k) /\ last # LiqFailed(k))
        => /\ k = liq
           /\ monPc' = "sweep"
           /\ liq' = NoKey
           /\ todo' = todo
           /\ k \notin todo'
           /\ store' = store
           /\ store'[k] # NoPos]_vars

\* a liquidation failed and the sweep has ended with the position stored
C18_Witness ==
    /\ "liq_failed" \in DOMAIN last
    /\ monPc = "select"
    /\ todo = {}
    /\ store[last.liq_failed] # NoPos

\* C19: the sweep starts a liquidation for the position it has just
\* evaluated exactly when that position is stored, not closed and
\* liquidable at the current prices; a position leaves the positions to
\* visit when it is evaluated and never comes back within the tick, and
\* nothing is evaluated while a liquidation is in flight.
C19_SweepLiquidatesExactlyTheLiquidable ==
    [][/\ \A k \in Keys :
            (monPc = "sweep" /\ k \in todo /\ k \notin todo')
            => /\ todo' = todo \ {k}
               /\ store[k] # NoPos
               /\ (monPc' = "liq_await" /\ liq' = k)
                    <=> (~is_closed(store[k]) /\ is_liquidable(store[k], prices) = "true")
       /\ (monPc = "sweep" /\ monPc' = "liq_await") => (liq' \in todo /\ liq' \notin todo')
       /\ (monPc \in {"sweep", "liq_await"}) => (todo' \subseteq todo)
       /\ (monPc = "liq_await") => (todo' = todo /\ monPc' \in {"liq_await", "sweep"})
       /\ (monPc = "tick_chan" /\ monPc' = "sweep") => (todo' = {k \in Keys : store[k] # NoPos})
       /\ (monPc = "sweep" /\ monPc' = "select") => (todo = {})]_vars

\* two positions are stored, the sweep has gone past the one that is not
\* liquidable and the liquidation of the other one is in flight
C19_Witness ==
    /\ monPc = "liq_await"
    /\ todo = {}
    /\ store[liq] # NoPos
    /\ is_liquidable(store[liq], prices) = "true"
    /\ \E k \in Keys \ {liq} : store[k] # NoPos /\ is_liquidable(store[k], prices) = "false"

\* C20: the store changes only in the handling of a delta (the recv branch
\* or the return of VesuPosition::new); no step of a tick changes it.
C20_SweepLeavesStore ==
    [][/\ (monPc \in {"tick_chan", "sweep", "liq_await"}) => (store' = store)
       /\ (store' # store) => \/ monPc = "select" /\ chan # <<>> /\ chan' = Tail(chan)
                              \/ monPc = "lltv_await"]_vars

\* a sweep over two stored positions, one of them liquidable, has ended and
\* both are still stored
C20_Witness ==
    /\ last = Tick("swept")
    /\ monPc = "select"
    /\ todo = {}
    /\ \A k \in Keys : store[k] # NoPos
    /\ SomeStoredLiquidable

-----------------------------------------------------------------------------
(* Properties of the interleaving, of cancellation and of the price cache *)

\* C21: between the start and the end of a sweep, the await of a
\* liquidation included, no delta is taken from the channel or applied;
\* while VesuPosition::new is awaited no tick runs and no other delta is
\* taken; a delta changes the entry of one key in one step.
C21_DeltasAndSweepsExclude ==
    [][/\ (monPc \in {"tick_chan", "sweep", "liq_await"})
            => /\ store' = store /\ cur' = cur
               /\ (chan' = chan \/ \E msg \in UpstreamEvents : chan' = Append(chan, msg))
       /\ (monPc = "lltv_await")
            => /\ monPc' \in {"lltv_await", "select"}
               /\ todo' = todo /\ liq' = liq
               /\ (chan' = chan \/ \E msg \in UpstreamEvents : chan' = Append(chan, msg))
       /\ (store' # store)
            => \E k \in Keys : \A other \in Keys \ {k} : store'[other] = store[other]]_vars

\* a delta is queued while a liquidation is awaited
C21_Witness ==
    /\ monPc = "liq_await"
    /\ chan # <<>>
    /\ store[liq] # NoPos

\* C22: a liquidation that is awaited ends only by the return of
\* liquidate_position, after which the sweep goes on; cancellation does not
\* end it.
C22_LiquidationRunsToCompletion ==
    [][monPc = "liq_await" => monPc' \in {"liq_await", "sweep"}]_vars

C24_ReturnsWithAllNonzero ==
    [][(monPc = "wait_prices" /\ monPc' = "select")
        => \A asset \in Assets : ~is_zero(prices'[asset])]_vars

\* C24, amended: wait_for_first_prices returns only at the end of one
\* iteration over the cache in which it has read a nonzero price for every
\* asset, one asset after the other; an entry read as zero ends the
\* iteration and the call does not return.
C24_ReturnsAfterReadingEachNonzero ==
    [][(monPc = "wait_prices")
        => /\ (scan' # scan)
                => \/ \E asset \in scan :
                        ~is_zero(prices[asset]) /\ scan' = scan \ {asset}
                   \/ scan' = Assets /\ \E asset \in scan : is_zero(prices[asset])
           /\ (monPc' = "select") <=> (scan' = {})
           /\ (\A asset \in scan : is_zero(prices[asset])) => monPc' = "wait_prices"]_vars

\* wait_for_first_prices has returned and no delta has been taken yet
C24_Witness ==
    /\ monPc = "select"
    /\ scan = {}
    /\ \A asset \in Assets : ~is_zero(prices[asset])
    /\ \A k \in Keys : store[k] = NoPos
    /\ nFwd > 0

\* C25: while wait_for_first_prices has not returned the monitoring loop
\* applies no delta and starts no sweep, and what the indexer forwards
\* stays in the channel; the loop is past that call only if every asset has
\* been given a nonzero price, so it never is if one asset never gets one.
C25_NothingBeforeFirstPrices ==
    [][/\ (monPc' # "wait_prices") => (PricedAssets' = Assets)
       /\ (monPc = "wait_prices")
            => /\ monPc' \in {"wait_prices", "select"}
               /\ store' = store /\ cur' = cur /\ todo' = todo /\ liq' = liq
               /\ (chan' = chan \/ \E msg \in UpstreamEvents : chan' = Append(chan, msg))]_vars

\* one asset has a nonzero price and the other never had one; the indexer
\* has signalled the barrier and its deltas are queued
C25_Witness ==
    /\ monPc = "wait_prices"
    /\ PricedAssets = {"WBTC"}
    /\ oneshot = "sent"
    /\ Len(chan) = 2
    /\ \A k \in Keys : store[k] = NoPos

\* C26: the cache is written only after the fetches of the cycle have been
\* joined, and a cache on which a sweep has evaluated a position between two
\* inserts of a cycle, after that cycle had changed it, is not changed
\* again by the same cycle.
C26_NoPartialCycleObserved ==
    [][/\ (prices' # prices) => (oraclePc = "publish")
       /\ ("read" \in DOMAIN last /\ oraclePc = "publish") => (prices' = prices)]_vars

\* C27: a fetch that returned Err, an invalid price included, leaves the
\* cache as it was and is the step of one asset of the cycle; the cycle goes
\* on with the assets that are left, and after the last one the loop starts
\* the next cycle: it never ends with an error.
C27_FailedFetchKeepsEntry ==
    [][/\ \A asset \in Assets :
            (last' = FetchFailed(asset) /\ last # FetchFailed(asset))
                => /\ prices' = prices
                   /\ oraclePc = "publish"
                   /\ asset \in pending
                   /\ pending' = pending \ {asset}
       /\ (oraclePc = "publish")
            => oraclePc' = IF pending' = {} THEN "fetch" ELSE "publish"
       /\ (oraclePc = "fetch") => oraclePc' \in {"fetch", "publish"}]_vars

\* the fetch of USDC failed in a cycle that has WBTC left to insert; USDC
\* keeps the nonzero price of an earlier cycle
C27_Witness ==
    /\ last = FetchFailed("USDC")
    /\ oraclePc = "publish"
    /\ pending = {"WBTC"}
    /\ ~is_zero(prices["USDC"])

\* C28: the channel changes only by a delta forwarded at its end or by the
\* recv branch taking its head; the delta taken is the one that is handled,
\* by an update and the eviction that goes with it in the same step or by
\* a creation that is awaited; until a creation has returned no other delta
\* is taken, and nothing is applied without a delta being taken.
C28_DeltasAppliedInOrder ==
    [][/\ (chan' # chan)
            => \/ \E msg \in UpstreamEvents :
                    chan' = Append(chan, msg) /\ nFwd' = nFwd + 1
               \/ /\ chan # <<>> /\ chan' = Tail(chan)
                  /\ monPc = "select"
                  /\ LET msg == Head(chan)
                         key == compute_position_key(msg.from_address, msg.event)
                     IN  \/ monPc' = "failed" /\ store' = store /\ cur' = cur
                         \/ monPc' = "lltv_await" /\ cur' = msg /\ store' = store
                         \/ /\ monPc' = "select" /\ cur' = cur
                            /\ store[key] # NoPos
                            /\ store' = RemoveIfClosed(
                                   [store EXCEPT ![key] = update_from_delta(@, msg.event)], key)
       /\ (monPc = "lltv_await")
            => /\ (chan' = chan \/ \E msg \in UpstreamEvents : chan' = Append(chan, msg))
               /\ (cur' # cur) => (cur' = NoDelta /\ monPc' = "select")
               /\ \A k \in Keys :
                    store'[k] # store[k]
                        => k = compute_position_key(cur.from_address, cur.event)
       /\ (store' # store \/ cur' # cur)
            => \/ monPc = "select" /\ chan # <<>> /\ chan' = Tail(chan)
               \/ monPc = "lltv_await"]_vars

\* the delta of u1 was forwarded before the one of u2: the position of u1 is
\* stored and the creation of the position of u2 is awaited
C28_Witness ==
    /\ monPc = "lltv_await"
    /\ nFwd = 2
    /\ chan = <<>>
    /\ cur.event.user_address = "u2"
    /\ store[<<"Prime", "WBTC", "USDC", "u1">>] # NoPos
    /\ store[<<"Prime", "WBTC", "USDC", "u2">>] = NoPos

\* C29: a position that stays stored keeps its lltv, its user, its pool and
\* its currencies: a delta changes its balances only; VesuPosition::new,
\* which looks the lltv up, is awaited only for a key that is not stored.
C29_LltvFixedWhileStored ==
    [][/\ \A k \in Keys :
            (store[k] # NoPos /\ store'[k] # NoPos)
                => store'[k] = [store[k] EXCEPT !.collateral = store'[k].collateral,
                                                !.debt = store'[k].debt]
       /\ (monPc # "lltv_await" /\ monPc' = "lltv_await")
            => store[compute_position_key(cur'.from_address, cur'.event)] = NoPos]_vars

\* a stored position has received a second delta and holds the lltv it was
\* created with
C29_Witness ==
    \E k \in Keys :
        /\ store[k] # NoPos
        /\ store[k].collateral.amount.mant = 2000
        /\ store[k].debt.amount.mant = 1198
        /\ store[k].lltv = Dec(6, 1)
        /\ monPc = "select"

\* C30: a creation that fails leaves no entry for its key and no delta in
\* creation; when the key of the latest failed creation gets an entry, the
\* balances of the entry are those of the delta that is being handled then,
\* divided by 10^18: the delta of the failed creation is not in them.
C30_FailedDeltaIsNotAppliedLater ==
    [][\A k \in Keys :
        /\ (last' = NewFailed(k) /\ last # NewFailed(k))
            => (store'[k] = NoPos /\ cur' = NoDelta)
        /\ (last = NewFailed(k) /\ store[k] = NoPos /\ store'[k] # NoPos)
            => /\ k = compute_position_key(cur.from_address, cur.event)
               /\ store'[k].collateral.amount =
                    scale(cur.event.collateral_delta, VESU_SCALE)
               /\ store'[k].debt.amount = scale(cur.event.debt_delta, VESU_SCALE)]_vars

\* the first delta of a key failed at creation and the second one created
\* the position, which holds the balances of the second delta
C30_Witness ==
    \E k \in Keys :
        /\ last = NewFailed(k)
        /\ store[k] # NoPos
        /\ store[k].collateral.amount.mant = 1000
        /\ store[k].debt.amount.mant = 599
        /\ cur = NoDelta
        /\ nFwd = 2
        /\ chan = <<>>

-----------------------------------------------------------------------------
(* Properties of the stored thresholds, of debt-free positions, of progress
   and of the end of the monitoring loop *)

\* C31: no stored position has an lltv of zero, and after a lookup has
\* returned zero for a key that key is absent until a later delta creates it.
C31_NoStoredZeroLltv ==
    /\ \A k \in Keys : store[k] # NoPos => ~is_zero(store[k].lltv)
    /\ \A k \in Keys :
        (last = ZeroLltv(k) /\ store[k] # NoPos) => nFwd - Len(chan) >= 2

\* the lookup returned zero for the only delta handled so far: nothing is
\* stored and the loop is back at its select
C31_Witness ==
    /\ "zero_lltv" \in DOMAIN last
    /\ monPc = "select"
    /\ nFwd = 1
    /\ chan = <<>>
    /\ \A k \in Keys : store[k] = NoPos

\* C32: is_liquidable is false for every stored position that has no debt,
\* when the price of its collateral is not zero, whatever its lltv and the
\* price of its debt; and a sweep never awaits the liquidation of a position
\* without debt.
C32_DebtFreeNeverLiquidated ==
    [][/\ \A k \in Keys :
            (/\ store'[k] # NoPos
             /\ is_zero(store'[k].debt.amount)
             /\ ~is_zero(prices'[store'[k].collateral.currency]))
                => is_liquidable(store'[k], prices') = "false"
       /\ (monPc = "sweep" /\ monPc' = "liq_await")
            => ~is_zero(store[liq'].debt.amount)]_vars

\* a sweep has ended with a debt-free position stored and both prices
\* nonzero; no liquidation failed or is awaited
C32_Witness ==
    /\ last = Tick("swept")
    /\ monPc = "select"
    /\ todo = {}
    /\ \A asset \in Assets : ~is_zero(prices[asset])
    /\ \E k \in Keys : store[k] # NoPos /\ is_zero(store[k].debt.amount)
    /\ \A k \in Keys : store[k] # NoPos => is_zero(store[k].debt.amount)

\* the position of this key is stored and is_liquidable holds for it
StoredLiquidable(k) == store[k] # NoPos /\ is_liquidable(store[k], prices) = "true"

\* C33: if from some point on the barrier is open, the monitoring loop has
\* not returned an error and a position is and stays liquidable, then the
\* liquidation of that position is awaited again and again.
C33_LiquidableIsEventuallyLiquidated ==
    \A k \in Keys :
        <>[](oneshot = "sent" /\ monPc # "failed" /\ StoredLiquidable(k))
            => []<>(monPc = "liq_await" /\ liq = k)

\* C34: the recv branch that takes a delta whose from_address is no known
\* pool ends the monitoring loop with an error and leaves the store and the
\* delta in creation as they are; a loop that has ended so takes no delta,
\* starts no sweep and changes nothing, and the channel is left as it is.
C34_UnknownPoolStopsMonitoring ==
    [][/\ (/\ monPc = "select" /\ chan # <<>> /\ chan' = Tail(chan)
           /\ ~PoolName_try_from(Head(chan).from_address).ok)
            => (monPc' = "failed" /\ store' = store /\ cur' = cur /\ todo' = todo)
       /\ (monPc = "failed")
            => /\ monPc' = "failed"
               /\ store' = store /\ cur' = cur /\ todo' = todo /\ liq' = liq
               /\ chan' = chan]_vars

\* the delta of an unknown pool was taken first: the loop has ended with
\* nothing stored and the delta forwarded after it is left in the channel
C34_Witness ==
    /\ monPc = "failed"
    /\ nFwd = 2
    /\ Len(chan) = 1
    /\ PoolName_try_from(chan[1].from_address).ok
    /\ \A k \in Keys : store[k] = NoPos

\* C35: a send of a position or liquidation delta that is attempted after
\* the monitoring loop has ended and dropped its receiver fails, and with it
\* the indexer loop returns an error: nothing is added to the channel, and
\* nothing is ever added to the channel of a receiver that is dropped.
C35_SendToStoppedMonitoringFails ==
    [][/\ (last' = SendFailed /\ last # SendFailed)
            => /\ ReceiversDropped
               /\ idxPc = "running" /\ idxPc' = "failed"
               /\ chan' = chan /\ nFwd' = nFwd
       /\ ReceiversDropped => (chan' = chan /\ nFwd' = nFwd)
       /\ (ReceiversDropped /\ idxPc = "failed") => idxPc' = "failed"]_vars

\* the monitoring loop ended on the delta of an unknown pool, and the next
\* send of the indexer failed
C35_Witness ==
    /\ last = SendFailed
    /\ monPc = "failed"
    /\ idxPc = "failed"
    /\ nFwd = 1
    /\ chan = <<>>

\* C36: the Liquidation arm sends the message the Position arm sends for an
\* event of the same fields, and the monitoring loop handles it as it
\* handles that message: for a stored key the deltas are added to the
\* position of the key and the position is removed if its collateral is
\* then zero or negative; for a key that is not stored the creation of the
\* position is awaited; for an unknown pool the loop ends.
C36_LiquidationAppliedLikePosition ==
    [][\A e \in VesuEvents :
        LET msg == [from_address |-> e.from_address,
                    event |-> PositionDelta_from_PositionEvent(e.value)]
            key == compute_position_key(msg.from_address, msg.event)
        IN  /\ (last' = LiquidationForwarded(e) /\ nFwd' = nFwd + 1)
                    => chan' = Append(chan, msg)
            /\ (last = LiquidationForwarded(e) /\ Len(chan) = 1 /\ chan' = <<>>)
                    => /\ chan[1] = msg
                       /\ monPc = "select"
                       /\ IF ~PoolName_try_from(e.from_address).ok
                          THEN monPc' = "failed" /\ store' = store
                          ELSE IF store[key] # NoPos
                          THEN /\ monPc' = "select"
                               /\ store' = [store EXCEPT ![key] =
                                    LET p == update_from_delta(store[key], msg.event)
                                    IN  IF p.collateral.amount.mant <= 0 THEN NoPos ELSE p]
                          ELSE /\ monPc' = "lltv_await"
                               /\ cur' = msg
                               /\ store' = store]_vars

\* a Liquidation event of u1 was sent last and has been taken from the
\* channel: its amounts were added to the position u1 already had
C36_Witness ==
    /\ \E e \in VesuEvents :
        /\ last = LiquidationForwarded(e)
        /\ e.value.event_metadata.user_address = <<"u1">>
        /\ e.value.collateral_delta.mant = 1000
        /\ LET k == <<e.from_address, "WBTC", "USDC", "u1">>
           IN  k \in Keys /\ store[k] # NoPos /\ store[k].collateral.amount.mant = 2000
    /\ nFwd = 2
    /\ chan = <<>>
    /\ monPc = "select"

====
